---- MODULE Spec2Model ----
(***************************************************************************)
(* State-machine model of vsscale/rescale.py: the RescaleBase / Rescale    *)
(* derived-clip graph (descale -> {rescale, doubled -> upscale}), its      *)
(* cached properties, the __delattr__ invalidation hook, the mask          *)
(* properties and the masked composition of upscale.                       *)
(*                                                                         *)
(* A clip (vs.VideoNode) is a node of a filter graph.  It is modelled as   *)
(* a record: its dimensions and bit depth, its frame properties (fb: the   *)
(* _FieldBased property, tags: the string properties set by SetFrameProp), *)
(* its luma pixels (px) and hist, the chain of filter invocations that     *)
(* built it from the source.  Luma pixels are uninterpreted terms naming   *)
(* where the value comes from (the source luma, the downscaled doubled     *)
(* clip, a blend); mask pixels are integers in 0..peak.                    *)
(***************************************************************************)
EXTENDS Integers, Sequences, FiniteSets, TLC

\* ------------------------------------------------------------- bounds
RecursionLimit == 6     \* frames the interpreter allows before RecursionError
MaxGen == 2             \* generations of one node that are followed
SrcW == 5               \* width of the source clip
SrcH == 4               \* height of the source clip
DstW == 2               \* descale_args.width
DstH == 2               \* descale_args.height
LumaBits == 16          \* bit depth of the source luma
KernelRadius == 1       \* self.kernel.kernel_radius
MaxFuel == 7            \* collaborator operations of one call that are followed

\* ---------------------------------------------------------- constants
GRAY8Bits == 8          \* vs.GRAY8 / depth(mask, 8)
Factor == 2             \* self.upscaler.multi(clip, 2)

Nodes == {"descale", "rescale", "doubled", "upscale"}
MaskNames == {"line_mask", "credit_mask", "ignore_mask"}
\* names a caller can pass to `del r.<name>`
DelNames == Nodes \cup MaskNames \cup {"kernel"}

None == [kind |-> "None"]

\* Python truthiness of an optional clip: a VideoNode is truthy, None is not.
Truthy(v) == v # None

VARIABLES
    field_based,       \* self.field_based : "None" | "PROGRESSIVE" | "BFF" | "TFF"
    border_handling,   \* self.border_handling : 0 mirror, 1 zero, 2 repeat
    _crop,             \* self._crop : <<left, right, top, bottom>>
    faults,            \* whether collaborator operations can fail in this run
    _line_mask,        \* self._line_mask
    _credit_mask,      \* self._credit_mask
    _ignore_mask,      \* self._ignore_mask
    mode,              \* self.descale_args.mode
    src_width,         \* self.descale_args.src_width, in thousandths
    src_height,        \* self.descale_args.src_height, in thousandths
    cache,             \* the cached_property entries of the instance __dict__
    genCount,          \* history: completed generations of each node
    exc                \* history: the exception the last call raised, or "none"

vars == <<field_based, border_handling, _crop, faults, _line_mask, _credit_mask,
          _ignore_mask, mode, src_width, src_height, cache, genCount, exc>>

\* ------------------------------------------------------- clip values
Peak(bits) == 2 ^ bits - 1

Grid(w, h) == (0 .. w - 1) \X (0 .. h - 1)

NoTags == [k \in {} |-> None]

\* ident: which object this is (<<node, generation>>); parent: the ident of the
\* clip it was generated from
Clip(w, h, bits, px, fb, tags, hist) ==
    [kind |-> "clip", w |-> w, h |-> h, bits |-> bits, px |-> px,
     fb |-> fb, tags |-> tags, hist |-> hist,
     ident |-> <<"source", 0>>, parent |-> <<"source", 0>>]

\* pixels of a clip whose content is not followed (not at source resolution)
Opaque == <<>>

\* std.SetFrameProp(key, data=...)
SetFrameProp(clip, key, data) ==
    [clip EXCEPT !.tags = [k \in DOMAIN clip.tags \cup {key} |->
                              IF k = key THEN data ELSE clip.tags[k]],
                 !.hist = Append(@, [op |-> "SetFrameProp", key |-> key])]

\* ------------------------------------------------------ source clips
\* get_y(self._pre): the luma of the clip given to the constructor
pre_y ==
    Clip(SrcW, SrcH, LumaBits,
         [p \in Grid(SrcW, SrcH) |-> [k |-> "src", x |-> p[1], y |-> p[2]]],
         "unset", NoTags, <<>>)

\* std.Crop(left, right, top, bottom)
Crop(clip, c) ==
    LET w == clip.w - c[1] - c[2]
        h == clip.h - c[3] - c[4]
    IN [clip EXCEPT !.w = w, !.h = h,
                    !.px = [p \in Grid(w, h) |-> clip.px[<<p[1] + c[1], p[2] + c[3]>>]],
                    !.hist = Append(@, [op |-> "Crop"])]

\* Python's tuple order: a > b
TupleGt(a, b) ==
    \E i \in 1 .. 4 : a[i] > b[i] /\ \A j \in 1 .. i - 1 : a[j] = b[j]

Cropped == TupleGt(_crop, <<0, 0, 0, 0>>)

\* self.clipy after construction
clipy == IF Cropped THEN Crop(pre_y, _crop) ELSE pre_y

\* mutant of FieldBasedTruthy: `if self.field_based is not None`
FieldBasedTruthy_NotNone == field_based # "None"

\* bool(self.field_based): FieldBased is an IntEnum, PROGRESSIVE = 0
FieldBasedTruthy == field_based \notin {"None", "PROGRESSIVE"}

\* ------------------------------------------------------- ScalingArgs
\* ScalingArgs.kwargs(): the keyword arguments of the axes the mode in force
\* names; ref says whether they were scaled to a reference clip (kwargs(clip))
Axes(m) == IF m = "hw" THEN {"h", "w"} ELSE {m}
kwargs(m, ref) == [mode |-> m, axes |-> Axes(m), ref |-> ref]

\* ------------------------------------------- the instance, threaded
\* The operations below are functions from the instance state s to a result
\* [s, ret, exc]: the state after, the value returned, the exception raised.
\* s.fuel is the number of collaborator operations that succeed before one
\* fails (MaxFuel + 1: none fails).
Ok(s, v) == [s |-> s, ret |-> v, exc |-> "none"]
Raise(s, e) == [s |-> s, ret |-> None, exc |-> e]
Fails(s) == s.fuel = 0
Tick(s) == IF s.fuel \in 1 .. MaxFuel THEN [s EXCEPT !.fuel = @ - 1] ELSE s

\* ---------------------------------------------------- __delattr__
RECURSIVE __delattr__(_, _, _)
RECURSIVE _trydelattr(_, _, _)

\* the builtin delattr(self, name) looks __delattr__ up on type(self), which
\* finds RescaleBase.__delattr__
delattr(s, name, depth) == __delattr__(s, name, depth)

\* depth: frames in use; a call at the limit raises RecursionError
__delattr__(s, name, depth) ==
    IF depth >= RecursionLimit THEN Raise(s, "RecursionError")
    ELSE LET r == CASE name = "descale" ->
                         LET a == _trydelattr(s, "rescale", depth + 1)
                         IN IF a.exc # "none" THEN a
                            ELSE _trydelattr(a.s, "doubled", depth + 1)
                    [] name = "doubled" -> _trydelattr(s, "upscale", depth + 1)
                    [] OTHER -> Ok(s, None)
         IN IF r.exc # "none" THEN r ELSE delattr(r.s, name, depth + 1)

_trydelattr(s, attr, depth) ==
    IF depth >= RecursionLimit THEN Raise(s, "RecursionError")
    ELSE LET r == delattr(s, attr, depth + 1)
         IN IF r.exc = "AttributeError" THEN Ok(r.s, None) ELSE r

\* ------------------------------------------------ collaborator filters
\* An optional int argument is <<>> (None) or <<n>>.
DimOr(arg, d) == IF arg = <<>> THEN d ELSE arg[1]

\* self.kernel.descale(clip, width, height, **kwargs, border_handling=, ignore_mask=)
kernel_descale(clip, width, height, kw, mask) ==
    Clip(DimOr(width, clip.w), DimOr(height, clip.h), clip.bits, Opaque, clip.fb, clip.tags,
         Append(clip.hist, [op |-> "kernel.descale", width |-> width, height |-> height,
                            kwargs |-> kw, border_handling |-> border_handling,
                            ignore_mask |-> mask]))

\* self.kernel.scale(clip, width, height, **kwargs, border_handling=)
kernel_scale(clip, width, height, kw) ==
    Clip(width, height, clip.bits, Opaque, clip.fb, clip.tags,
         Append(clip.hist, [op |-> "kernel.scale", width |-> width, height |-> height,
                            kwargs |-> kw, border_handling |-> border_handling]))

\* self.upscaler.multi(clip, 2)
upscaler_multi(clip, factor) ==
    Clip(clip.w * factor, clip.h * factor, clip.bits, Opaque, clip.fb, clip.tags,
         Append(clip.hist, [op |-> "upscaler.multi", factor |-> factor]))

\* self.downscaler.scale(clip, width, height, **kwargs): the result is at the
\* resolution of clipy; its pixel <<x, y>> is the term up(x, y)
downscaler_scale(clip, width, height, kw) ==
    Clip(width, height, clip.bits,
         [p \in Grid(width, height) |-> [k |-> "up", x |-> p[1], y |-> p[2]]],
         clip.fb, clip.tags,
         Append(clip.hist, [op |-> "downscaler.scale", width |-> width, height |-> height,
                            kwargs |-> kw]))

\* Point.scale(mask, height=h)
PointScale(mask, height) ==
    [mask EXCEPT !.h = height, !.px = Opaque,
                 !.hist = Append(@, [op |-> "Point.scale", height |-> height])]

\* FieldBased.apply(clip): sets the _FieldBased frame property
FieldBasedApply(clip, value) ==
    [clip EXCEPT !.fb = value,
                 !.hist = Append(@, [op |-> "FieldBased.apply", value |-> value])]

\* ------------------------------------------- RescaleBase generation
\* the undecorated body of RescaleBase._generate_descale
Base_descale_body(s, clip) ==
    IF Fails(s) THEN Raise(s, "Failure")
    ELSE Ok(Tick(s), kernel_descale(clip, <<DstW>>, <<DstH>>, kwargs(s.mode, "none"), None))

rescale_body(s, clip) ==
    IF Fails(s) THEN Raise(s, "Failure")
    ELSE Ok(Tick(s), kernel_scale(clip, clipy.w, clipy.h, kwargs(s.mode, "none")))

doubled_body(s, clip) ==
    IF Fails(s) THEN Raise(s, "Failure")
    ELSE Ok(Tick(s), upscaler_multi(clip, Factor))

\* mutant of Base_upscale_body: the doubled clip is scaled to its own size
Base_upscale_body_OwnSize(s, clip) ==
    IF Fails(s) THEN Raise(s, "Failure")
    ELSE Ok(Tick(s), downscaler_scale(clip, clip.w, clip.h, kwargs(s.mode, "clip")))

Base_upscale_body(s, clip) ==
    IF Fails(s) THEN Raise(s, "Failure")
    ELSE Ok(Tick(s), downscaler_scale(clip, clipy.w, clipy.h, kwargs(s.mode, "clip")))

\* --------------------------------------- Rescale._generate_descale
\* mutant of descale_ignore_mask_body: the mode is not set back to 'hw'
descale_ignore_mask_body_ModeLeak(s, clip) ==
    LET s1 == [s EXCEPT !.mode = "h"]
        descale_h == kernel_descale(clip, <<>>, <<DstH>>, kwargs(s1.mode, "none"),
                                    s1._ignore_mask)
        s2 == [s1 EXCEPT !.mode = "w"]
        descale_w == kernel_descale(descale_h, <<DstW>>, <<>>, kwargs(s2.mode, "none"),
                                    PointScale(s2._ignore_mask, descale_h.h))
    IN Ok(s2, descale_w)

\* the undecorated body of the nested _generate_descale_ignore_mask
descale_ignore_mask_body(s, clip) ==
    LET s1 == [s EXCEPT !.mode = "h"]
    IN IF Fails(s1) THEN Raise(s1, "Failure")
       ELSE
         LET descale_h == kernel_descale(clip, <<>>, <<DstH>>, kwargs(s1.mode, "none"),
                                         s1._ignore_mask)
             s2 == [Tick(s1) EXCEPT !.mode = "w"]
         IN IF Fails(s2) THEN Raise(s2, "Failure")
            ELSE
              LET descale_w == kernel_descale(descale_h, <<DstW>>, <<>>,
                                              kwargs(s2.mode, "none"),
                                              PointScale(s2._ignore_mask, descale_h.h))
              IN Ok([Tick(s2) EXCEPT !.mode = "hw"], descale_w)

\* --------------------------------------------------------- decorators
\* a call of the function a decorator wraps, named by its body
Call(function, s, clip) ==
    CASE function = "Base_descale_body" -> Base_descale_body(s, clip)
      [] function = "rescale_body" -> rescale_body(s, clip)
      [] function = "doubled_body" -> doubled_body(s, clip)
      [] function = "Base_upscale_body" -> Base_upscale_body(s, clip)
      [] function = "descale_ignore_mask_body" -> descale_ignore_mask_body(s, clip)

\* function.__name__.split('_')
Name(function) ==
    CASE function = "Base_descale_body" -> <<"", "generate", "descale">>
      [] function = "rescale_body" -> <<"", "generate", "rescale">>
      [] function = "doubled_body" -> <<"", "generate", "doubled">>
      [] function = "Base_upscale_body" -> <<"", "generate", "upscale">>
      [] function = "descale_ignore_mask_body" ->
             <<"", "generate", "descale", "ignore", "mask">>

\* FieldBased.PROGRESSIVE.apply(clip) on the clip the function returned as r
ApplyProgressive(r) ==
    IF r.exc # "none" THEN r ELSE Ok(r.s, FieldBasedApply(r.ret, "PROGRESSIVE"))

_apply_field_based(function, s, clip) ==
    IF FieldBasedTruthy
    THEN ApplyProgressive(Call(function, s, FieldBasedApply(clip, field_based)))
    ELSE Call(function, s, clip)

\* d in thousandths, to the nearest hundredth; a tie goes to the even
\* hundredth (the ties followed are exact binary fractions)
RoundHundredths(d) ==
    LET q == d \div 10
        r == d % 10
    IN IF r > 5 \/ (r = 5 /\ q % 2 = 1) THEN q + 1 ELSE q

\* mutant of FormatDim: f"{d:.2f}" whatever d is
FormatDim_TwoDecimals(d) ==
    LET c == RoundHundredths(d)
    IN [int |-> c \div 100, dec |-> <<(c % 100) \div 10, c % 10>>]

\* f"{int(d)}" if d.is_integer() else f"{d:.2f}", d in thousandths: the
\* digits before the point and the digits after it
FormatDim(d) ==
    IF d % 1000 = 0 THEN [int |-> d \div 1000, dec |-> <<>>]
    ELSE LET c == RoundHundredths(d)
         IN [int |-> c \div 100, dec |-> <<(c % 100) \div 10, c % 10>>]

\* str.capitalize() of the words function names end with
Capitalize(word) ==
    CASE word = "descale" -> "Descale"
      [] word = "rescale" -> "Rescale"
      [] word = "doubled" -> "Doubled"
      [] word = "upscale" -> "Upscale"
      [] word = "mask" -> "Mask"

\* function: the name of the wrapped body, and whether the function handed
\* to _add_props is its _apply_field_based wrapper (which keeps its __name__)
\* std.SetFrameProp on the clip the function returned as r
SetRescaleFrom(name, r) ==
    LET w == FormatDim(src_width)
        h == FormatDim(src_height)
    IN IF r.exc # "none" THEN r
       ELSE Ok(r.s, SetFrameProp(r.ret, "Rescale" \o Capitalize(name[Len(name)]) \o "From",
                                 [kernel |-> "Kernel", w |-> w, h |-> h]))

_add_props(function, s, clip) ==
    SetRescaleFrom(Name(function.body),
                   IF function.field_based
                   THEN _apply_field_based(function.body, s, clip)
                   ELSE Call(function.body, s, clip))

\* ------------------------------------------------ decorated functions
Base_generate_descale(s, clip) ==
    _add_props([body |-> "Base_descale_body", field_based |-> TRUE], s, clip)

_generate_rescale(s, clip) ==
    _add_props([body |-> "rescale_body", field_based |-> TRUE], s, clip)

_generate_doubled(s, clip) ==
    _add_props([body |-> "doubled_body", field_based |-> FALSE], s, clip)

Base_generate_upscale(s, clip) ==
    _add_props([body |-> "Base_upscale_body", field_based |-> FALSE], s, clip)

_generate_descale_ignore_mask(s, clip) ==
    _add_props([body |-> "descale_ignore_mask_body", field_based |-> TRUE], s, clip)

\* Rescale._generate_descale
_generate_descale(s, clip) ==
    IF ~Truthy(s._ignore_mask) THEN Base_generate_descale(s, clip)
    ELSE _generate_descale_ignore_mask(s, clip)

\* ------------------------------------------------ masks and merging
\* clip.std.BlankClip(color=...): masks are followed by their pixels only
BlankClip(clip, bits, color) ==
    Clip(clip.w, clip.h, bits, [p \in Grid(clip.w, clip.h) |-> color], "unset", NoTags, <<>>)

\* vstools.depth(mask, bits, dither_type=DitherType.NONE): a mask already at
\* that depth is returned as it is, another one is shifted to it
depth(mask, bits) ==
    IF mask.bits = bits THEN mask
    ELSE [mask EXCEPT !.bits = bits,
                      !.px = [p \in DOMAIN mask.px |->
                                 IF bits > mask.bits
                                 THEN mask.px[p] * 2 ^ (bits - mask.bits)
                                 ELSE mask.px[p] \div 2 ^ (mask.bits - bits)]]

\* _get_region_expr(clip, left, right, top, bottom, replace='<peak> x'): the
\* pixels of the border region
InRegion(clip, c, p) ==
    \/ p[1] < c[1]
    \/ p[1] > clip.w - (c[2] + 1)
    \/ p[2] < c[3]
    \/ p[2] > clip.h - (c[4] + 1)

\* norm_expr(clip, _get_region_expr(..., replace=f'{peak} x'))
RegionPeak(clip, c) ==
    [clip EXCEPT !.px = [p \in DOMAIN clip.px |->
                            IF InRegion(clip, c, p) THEN Peak(clip.bits) ELSE clip.px[p]]]

\* core.std.MaskedMerge(clipa, clipb, mask): clipa where the mask is 0, clipb
\* where it is at peak, a blend in between; frame properties of clipa
MaskedMerge(clipa, clipb, mask, label) ==
    [clipa EXCEPT
        !.px = [p \in DOMAIN clipa.px |->
                   IF mask.px[p] = 0 THEN clipa.px[p]
                   ELSE IF mask.px[p] = Peak(clipa.bits) THEN clipb.px[p]
                   ELSE [k |-> "mix", x |-> p[1], y |-> p[2]]],
        !.hist = <<[op |-> "MaskedMerge", clipa |-> clipa.hist, clipb |-> clipb.hist,
                    mask |-> label]>>]

\* clip.std.CopyFrameProps(prop_src)
CopyFrameProps(clip, prop_src) ==
    [clip EXCEPT !.fb = prop_src.fb, !.tags = prop_src.tags,
                 !.hist = Append(@, [op |-> "CopyFrameProps"])]

\* clip.std.AddBorders(left, right, top, bottom)
AddBorders(clip, c) ==
    LET w == clip.w + c[1] + c[2]
        h == clip.h + c[3] + c[4]
        big == [w |-> w, h |-> h]
    IN [clip EXCEPT
           !.w = w, !.h = h,
           !.px = [p \in Grid(w, h) |->
                      IF InRegion(big, c, p) THEN [k |-> "black", x |-> p[1], y |-> p[2]]
                      ELSE clip.px[<<p[1] - c[1], p[2] - c[3]>>]],
           !.hist = Append(@, [op |-> "AddBorders"])]

\* mutant of line_mask: the border region is made opaque whatever the border
\* handling is
line_mask_AlwaysBorder(s) ==
    LET lm0 == IF Truthy(s._line_mask) THEN s._line_mask
               ELSE BlankClip(clipy, clipy.bits, Peak(clipy.bits))
        px4 == <<KernelRadius, KernelRadius, KernelRadius, KernelRadius>>
        lm == RegionPeak(lm0, px4)
    IN Ok([s EXCEPT !._line_mask = lm], lm)

\* the line_mask property
line_mask(s) ==
    LET lm0 == IF Truthy(s._line_mask) THEN s._line_mask
               ELSE BlankClip(clipy, clipy.bits, Peak(clipy.bits))
        px4 == <<KernelRadius, KernelRadius, KernelRadius, KernelRadius>>
        lm == IF border_handling # 0 THEN RegionPeak(lm0, px4) ELSE lm0
    IN Ok([s EXCEPT !._line_mask = lm], lm)

line_mask_setter(s, mask) ==
    Ok([s EXCEPT !._line_mask = IF Truthy(mask) THEN depth(mask, clipy.bits) ELSE mask], None)

line_mask_deleter(s) == Ok([s EXCEPT !._line_mask = None], None)

credit_mask_setter(s, mask) ==
    Ok([s EXCEPT !._credit_mask = IF Truthy(mask) THEN depth(mask, clipy.bits) ELSE mask], None)

credit_mask_deleter(s) == Ok([s EXCEPT !._credit_mask = None], None)

\* mutant of credit_mask: the default credit mask is opaque
credit_mask_OpaqueDefault(s) ==
    IF Truthy(s._credit_mask) THEN Ok(s, s._credit_mask)
    ELSE LET r == credit_mask_setter(s, BlankClip(clipy, clipy.bits, Peak(clipy.bits)))
         IN Ok(r.s, r.s._credit_mask)

\* the credit_mask property
credit_mask(s) ==
    IF Truthy(s._credit_mask) THEN Ok(s, s._credit_mask)
    ELSE LET r == credit_mask_setter(s, BlankClip(clipy, clipy.bits, 0))
         IN Ok(r.s, r.s._credit_mask)

ignore_mask_setter(s, mask) ==
    Ok([s EXCEPT !._ignore_mask = IF Truthy(mask) THEN depth(mask, GRAY8Bits) ELSE mask], None)

ignore_mask_deleter(s) == Ok([s EXCEPT !._ignore_mask = None], None)

\* the ignore_mask property
ignore_mask(s) ==
    IF Truthy(s._ignore_mask) THEN Ok(s, s._ignore_mask)
    ELSE LET r == ignore_mask_setter(s, BlankClip(clipy, GRAY8Bits, 0))
         IN Ok(r.s, r.s._ignore_mask)

\* --------------------------------------- Rescale._generate_upscale
\* mutant of line_merge: the two clips of the merge are exchanged
line_merge_Swapped(r) ==
    IF r.exc # "none" THEN r
    ELSE IF Truthy(r.s._line_mask) \/ border_handling # 0
    THEN LET g == line_mask(r.s)
         IN Ok(g.s, CopyFrameProps(MaskedMerge(r.ret, clipy, g.ret, "line_mask"), r.ret))
    ELSE r

\* The three conditional merges; r is the result so far (r.ret: upscale), and
\* a statement is not reached when an earlier one raised.
\* if self._line_mask or self.border_handling: ...
line_merge(r) ==
    IF r.exc # "none" THEN r
    ELSE IF Truthy(r.s._line_mask) \/ border_handling # 0
    THEN LET g == line_mask(r.s)
         IN IF Fails(g.s) THEN Raise(g.s, "Failure")
            ELSE Ok(Tick(g.s),
                    CopyFrameProps(MaskedMerge(clipy, r.ret, g.ret, "line_mask"), r.ret))
    ELSE r

\* mutant of credit_merge: the two clips of the merge are exchanged
credit_merge_Swapped(r) ==
    IF r.exc # "none" THEN r
    ELSE IF Truthy(r.s._credit_mask)
    THEN LET g == credit_mask(r.s)
         IN Ok(g.s, MaskedMerge(clipy, r.ret, g.ret, "credit_mask"))
    ELSE r

\* if self._credit_mask: ...
credit_merge(r) ==
    IF r.exc # "none" THEN r
    ELSE IF Truthy(r.s._credit_mask)
    THEN LET g == credit_mask(r.s)
         IN IF Fails(g.s) THEN Raise(g.s, "Failure")
            ELSE Ok(Tick(g.s), MaskedMerge(r.ret, clipy, g.ret, "credit_mask"))
    ELSE r

\* mutant of crop_restore: the two clips of the merge are exchanged
crop_restore_Swapped(r) ==
    IF r.exc # "none" THEN r
    ELSE IF Cropped
    THEN LET black == BlankClip(pre_y, pre_y.bits, 0)
             mask == RegionPeak(black, _crop)
         IN Ok(r.s, MaskedMerge(pre_y, AddBorders(r.ret, _crop), mask, "crop"))
    ELSE r

\* if self._crop > (0, 0, 0, 0): ...
crop_restore(r) ==
    IF r.exc # "none" THEN r
    ELSE IF Cropped
    THEN LET black == BlankClip(pre_y, pre_y.bits, 0)
             mask == RegionPeak(black, _crop)
         IN IF Fails(r.s) THEN Raise(r.s, "Failure")
            ELSE Ok(Tick(r.s), MaskedMerge(AddBorders(r.ret, _crop), pre_y, mask, "crop"))
    ELSE r

_generate_upscale(s, clip) ==
    crop_restore(credit_merge(line_merge(Base_generate_upscale(s, clip))))

\* --------------------------------------------- the cached properties
\* mutant of Store: the value is returned and not kept (a plain property)
Store_NotKept(s, n, r, parent) ==
    IF r.exc # "none" THEN r
    ELSE Ok([r.s EXCEPT !.genCount[n] = @ + 1],
            [r.ret EXCEPT !.ident = <<n, r.s.genCount[n] + 1>>, !.parent = parent])

\* mutant of Store: a failed generation leaves a value in the cache
Store_KeepsPartial(s, n, r, parent) ==
    IF r.exc # "none" THEN [r EXCEPT !.s.cache[n] = pre_y]
    ELSE LET v == [r.ret EXCEPT !.ident = <<n, r.s.genCount[n] + 1>>, !.parent = parent]
         IN Ok([r.s EXCEPT !.cache[n] = v, !.genCount[n] = @ + 1], v)

\* functools.cached_property: the value in the instance __dict__ if there is
\* one, else the value the function returns, stored on return
Store(s, n, r, parent) ==
    IF r.exc # "none" THEN r
    ELSE LET v == [r.ret EXCEPT !.ident = <<n, r.s.genCount[n] + 1>>, !.parent = parent]
         IN Ok([r.s EXCEPT !.cache[n] = v, !.genCount[n] = @ + 1], v)

descale(s) ==
    IF s.cache["descale"] # None THEN Ok(s, s.cache["descale"])
    ELSE Store(s, "descale", _generate_descale(s, clipy), clipy.ident)

\* d: how the read of self.descale ended
rescale_from(d) ==
    IF d.exc # "none" THEN d
    ELSE Store(d.s, "rescale", _generate_rescale(d.s, d.ret), d.ret.ident)

rescale(s) ==
    IF s.cache["rescale"] # None THEN Ok(s, s.cache["rescale"])
    ELSE rescale_from(descale(s))

doubled_from(d) ==
    IF d.exc # "none" THEN d
    ELSE Store(d.s, "doubled", _generate_doubled(d.s, d.ret), d.ret.ident)

doubled(s) ==
    IF s.cache["doubled"] # None THEN Ok(s, s.cache["doubled"])
    ELSE doubled_from(descale(s))

\* join(luma, *self.chroma)
join(luma) == [luma EXCEPT !.hist = Append(@, [op |-> "join"])]

\* g: how self._generate_upscale(self.doubled) ended
joined(g) == IF g.exc # "none" THEN g ELSE Ok(g.s, join(g.ret))

\* d: how the read of self.doubled ended
upscale_from(d) ==
    IF d.exc # "none" THEN d
    ELSE Store(d.s, "upscale", joined(_generate_upscale(d.s, d.ret)), d.ret.ident)

upscale(s) ==
    IF s.cache["upscale"] # None THEN Ok(s, s.cache["upscale"])
    ELSE upscale_from(doubled(s))

\* ------------------------------------------------- default masks
\* a mask a caller or a mask generator supplies: opaque, transparent and
\* half-opaque pixels, at the resolution of clipy
StripeMask(bits) ==
    Clip(clipy.w, clipy.h, bits,
         [p \in Grid(clipy.w, clipy.h) |->
             CASE (p[1] + p[2]) % 3 = 0 -> Peak(bits)
               [] (p[1] + p[2]) % 3 = 1 -> 0
               [] OTHER -> Peak(bits) \div 2],
         "unset", NoTags, <<>>)

MaskInputs == {StripeMask(LumaBits)}

\* default_line_mask: edge is the mask the edge detector and the scaler return
default_line_mask(s, edge) ==
    IF Fails(s) THEN Raise(s, "Failure")
    ELSE line_mask(line_mask_setter(Tick(s), edge).s)

\* default_credit_mask(): diff is the mask based_diff_mask returns
\* r: how the read of self.rescale ended
default_credit_mask_from(r, diff) ==
    IF r.exc # "none" THEN r
    ELSE IF Fails(r.s) THEN Raise(r.s, "Failure")
    ELSE credit_mask(credit_mask_setter(Tick(r.s), diff).s)

default_credit_mask(s, diff) == default_credit_mask_from(rescale(s), diff)

\* ------------------------------------------------------ the machine
Self(fuel) ==
    [cache |-> cache, genCount |-> genCount, _line_mask |-> _line_mask,
     _credit_mask |-> _credit_mask, _ignore_mask |-> _ignore_mask, mode |-> mode,
     fuel |-> fuel]

\* a call in which no collaborator operation fails
Me == Self(MaxFuel + 1)

\* the failure points of one call: the (f+1)-th collaborator operation fails,
\* or none does
Fuels == IF faults THEN 0 .. MaxFuel + 1 ELSE {MaxFuel + 1}

\* the instance after a call that ended as r
Commit(r) ==
    /\ \A n \in Nodes : r.s.genCount[n] <= MaxGen
    /\ cache' = r.s.cache
    /\ genCount' = r.s.genCount
    /\ _line_mask' = r.s._line_mask
    /\ _credit_mask' = r.s._credit_mask
    /\ _ignore_mask' = r.s._ignore_mask
    /\ mode' = r.s.mode
    /\ exc' = r.exc
    /\ UNCHANGED <<field_based, border_handling, _crop, faults, src_width, src_height>>

\* the constructor arguments that are followed
Configs ==
    {cfg \in [field_based : {"None", "PROGRESSIVE", "TFF"},
              border_handling : {0, 1},
              _crop : {<<0, 0, 0, 0>>, <<1, 2, 1, 1>>},
              src_width : {DstW * 1000},
              src_height : {DstH * 1000}] :
        cfg.field_based = "None" \/ (cfg.border_handling = 0 /\ cfg._crop[1] = 0)}

\* the instance after Rescale.__init__
Constructed(cfg, f) ==
    /\ field_based = cfg.field_based
    /\ border_handling = cfg.border_handling
    /\ _crop = cfg._crop
    /\ faults = f
    /\ _line_mask = None
    /\ _credit_mask = None
    /\ _ignore_mask = None
    /\ mode = "hw"
    /\ src_width = cfg.src_width
    /\ src_height = cfg.src_height
    /\ cache = [n \in Nodes |-> None]
    /\ genCount = [n \in Nodes |-> 0]
    /\ exc = "none"

Init == \E cfg \in Configs : Constructed(cfg, FALSE)

\* r.descale, r.rescale, r.doubled, r.upscale
GetDescale == \E f \in Fuels : Commit(descale(Self(f)))

GetRescale == \E f \in Fuels : Commit(rescale(Self(f)))

GetDoubled == \E f \in Fuels : Commit(doubled(Self(f)))

GetUpscale == \E f \in Fuels : Commit(upscale(Self(f)))

\* del r.<name>
DelAttr(name) == Commit(__delattr__(Me, name, 0))

Del == \E name \in DelNames : DelAttr(name)

\* r.line_mask = mask, r.credit_mask = mask, r.ignore_mask = mask
SetLineMask == \E m \in MaskInputs \cup {None} : Commit(line_mask_setter(Me, m))

SetCreditMask == \E m \in MaskInputs \cup {None} : Commit(credit_mask_setter(Me, m))

SetIgnoreMask == \E m \in MaskInputs \cup {None} : Commit(ignore_mask_setter(Me, m))

\* r.line_mask, r.credit_mask, r.ignore_mask
GetLineMask == Commit(line_mask(Me))

GetCreditMask == Commit(credit_mask(Me))

GetIgnoreMask == Commit(ignore_mask(Me))

\* r.default_line_mask(), r.default_credit_mask()
DefaultLineMask ==
    \E f \in Fuels, edge \in MaskInputs : Commit(default_line_mask(Self(f), edge))

DefaultCreditMask ==
    \E f \in Fuels, diff \in MaskInputs : Commit(default_credit_mask(Self(f), diff))

Next ==
    \/ GetDescale
    \/ GetRescale
    \/ GetDoubled
    \/ GetUpscale
    \/ Del
    \/ SetLineMask
    \/ SetCreditMask
    \/ SetIgnoreMask
    \/ GetLineMask
    \/ GetCreditMask
    \/ GetIgnoreMask
    \/ DefaultLineMask
    \/ DefaultCreditMask

Spec == Init /\ [][Next]_vars

\* ------------------------------------- instances of fractional sizes
\* source widths and heights in thousandths: integral ones, fractional ones,
\* one that rounds up to the next integer, one that rounds down to an
\* integer, and a tie
SrcDims == {720000, 715500, 1280000, 1272125, 719999, 1000004}

FormatConfigs ==
    [field_based : {"None"}, border_handling : {0}, _crop : {<<0, 0, 0, 0>>},
     src_width : SrcDims, src_height : SrcDims]

FormatInit == \E cfg \in FormatConfigs : Constructed(cfg, FALSE)

FormatNext ==
    \/ GetDescale
    \/ GetRescale
    \/ GetDoubled
    \/ GetUpscale
    \/ SetIgnoreMask

FormatSpec == FormatInit /\ [][FormatNext]_vars

\* --------------------------- instances whose collaborators can fail
FaultConfigs ==
    {cfg \in Configs :
        /\ cfg.field_based = "None"
        /\ (cfg.border_handling = 0) <=> (cfg._crop[1] = 0)}

FaultInit == \E cfg \in FaultConfigs : Constructed(cfg, TRUE)

FaultSpec == FaultInit /\ [][Next]_vars

\* ============================================================ claims
Cached(n) == cache[n] # None
AllCached == \A n \in Nodes : Cached(n)
Masks == <<_line_mask, _credit_mask, _ignore_mask>>

\* r.<n> for a derived property n
Read(n, s) ==
    CASE n = "descale" -> descale(s)
      [] n = "rescale" -> rescale(s)
      [] n = "doubled" -> doubled(s)
      [] n = "upscale" -> upscale(s)

\* C1: deleting the cached descale of an instance on which descale, rescale,
\* doubled and upscale have all been read completes without error and leaves
\* all four uncached.
C1_DeleteDescaleClearsAll ==
    [][(AllCached /\ DelAttr("descale"))
          => (exc' = "none" /\ \A n \in Nodes : cache'[n] = None)]_vars

\* C2: invalidation is directional: deleting a cached doubled clears doubled
\* and upscale and leaves descale and rescale as they are; deleting a cached
\* rescale leaves descale, doubled and upscale as they are; deleting a cached
\* upscale leaves descale, rescale and doubled as they are.
C2_DirectionalInvalidation ==
    [][/\ (Cached("doubled") /\ DelAttr("doubled"))
            => /\ cache'["doubled"] = None
               /\ cache'["upscale"] = None
               /\ cache'["descale"] = cache["descale"]
               /\ cache'["rescale"] = cache["rescale"]
       /\ (Cached("rescale") /\ DelAttr("rescale"))
            => \A n \in Nodes \ {"rescale"} : cache'[n] = cache[n]
       /\ (Cached("upscale") /\ DelAttr("upscale"))
            => \A n \in Nodes \ {"upscale"} : cache'[n] = cache[n]]_vars

\* the nodes a read of n has to compute
Ancestors(n) ==
    CASE n = "descale" -> {}
      [] n = "rescale" -> {"descale"}
      [] n = "doubled" -> {"descale"}
      [] n = "upscale" -> {"descale", "doubled"}

\* a read of n that completes returns what is cached for n afterwards, leaves n
\* and its ancestors cached and every other node as it was; a read of a cached
\* node returns the cached value and changes nothing
ReadMemoized(n) ==
    LET r == Read(n, Me)
    IN /\ r.exc = "none"
       /\ r.ret = r.s.cache[n]
       /\ \A a \in Ancestors(n) \cup {n} : r.s.cache[a] # None
       /\ \A o \in Nodes \ (Ancestors(n) \cup {n}) : r.s.cache[o] = cache[o]
       /\ \A a \in Ancestors(n) \cup {n} : Cached(a) => r.s.cache[a] = cache[a]
       /\ Cached(n) => (r.ret = cache[n] /\ r.s = Me)

\* C3: memoization.  In every step of the instance a node is generated at most
\* once, only when it is not cached, and the value generated is cached; two
\* reads in a row return the same value; a read caches the node and the
\* ancestors it had to compute and nothing else (reading upscale caches
\* descale and doubled, not rescale).
C3_Memoization ==
    /\ [](\A n \in Nodes : ReadMemoized(n))
    /\ [][\A n \in Nodes :
             /\ genCount'[n] \in {genCount[n], genCount[n] + 1}
             /\ genCount'[n] # genCount[n] => (cache[n] = None /\ cache'[n] # None)
             /\ (Cached(n) /\ cache'[n] # None) => cache'[n] = cache[n]]_vars

\* C3 witness: upscale has been read on a fresh instance: descale, doubled and
\* upscale were generated once and are cached, rescale is not.
C3_Witness ==
    /\ genCount = [n \in Nodes |-> IF n = "rescale" THEN 0 ELSE 1]
    /\ \A n \in Nodes \ {"rescale"} : Cached(n)
    /\ ~Cached("rescale")

\* a cached child was generated from the parent that is cached now
NoStale ==
    /\ \A n \in {"rescale", "doubled"} :
          Cached(n) => (Cached("descale") /\ cache[n].parent = cache["descale"].ident)
    /\ Cached("upscale")
          => (Cached("doubled") /\ cache["upscale"].parent = cache["doubled"].ident)

\* C4: no stale children: a cached rescale or doubled was generated from the
\* descale that is cached now, a cached upscale from the doubled that is cached
\* now; and deleting descale and then reading rescale generates a fresh descale
\* and derives rescale from it.
C4_NoStaleChildren ==
    /\ NoStale
    /\ Cached("descale")
          => LET d == __delattr__(Me, "descale", 0)
                 r == rescale(d.s)
             IN /\ d.exc = "none"
                /\ r.exc = "none"
                /\ r.s.cache["descale"].ident # cache["descale"].ident
                /\ r.ret.parent = r.s.cache["descale"].ident

\* C5: deleting a derived property whose value is not cached is a no-op: it
\* raises nothing and leaves every cached node and every mask as it was.
C5_DeleteUncachedIsNoOp ==
    [][\A n \in Nodes :
          (~Cached(n) /\ DelAttr(n))
             => (exc' = "none" /\ cache' = cache /\ Masks' = Masks)]_vars

\* C6: setting or deleting a mask property invalidates the cached nodes that
\* depend on it: with upscale cached, assigning or clearing line_mask or
\* credit_mask leaves upscale uncached; with descale cached, assigning or
\* clearing ignore_mask leaves descale, rescale, doubled and upscale uncached.
C6_MaskChangeInvalidates ==
    [][/\ (Cached("upscale")
            /\ (SetLineMask \/ SetCreditMask \/ DelAttr("line_mask") \/ DelAttr("credit_mask")))
             => cache'["upscale"] = None
       /\ (Cached("descale") /\ (SetIgnoreMask \/ DelAttr("ignore_mask")))
             => \A n \in Nodes : cache'[n] = None]_vars

\* C7: each of line_mask, credit_mask and ignore_mask is independently
\* clearable: del r.<mask> completes without error, leaves that mask unset and
\* the other two as they were; assigning None has the same effect.
C7_MasksClearable ==
    [][/\ (DelAttr("line_mask") \/ Commit(line_mask_setter(Me, None)))
             => /\ exc' = "none"
                /\ _line_mask' = None
                /\ <<_credit_mask, _ignore_mask>>' = <<_credit_mask, _ignore_mask>>
       /\ (DelAttr("credit_mask") \/ Commit(credit_mask_setter(Me, None)))
             => /\ exc' = "none"
                /\ _credit_mask' = None
                /\ <<_line_mask, _ignore_mask>>' = <<_line_mask, _ignore_mask>>
       /\ (DelAttr("ignore_mask") \/ Commit(ignore_mask_setter(Me, None)))
             => /\ exc' = "none"
                /\ _ignore_mask' = None
                /\ <<_line_mask, _credit_mask>>' = <<_line_mask, _credit_mask>>]_vars

\* the kernel.descale invocations in the chain of a clip, in order
Passes(clip) == SelectSeq(clip.hist, LAMBDA e : e.op = "kernel.descale")

\* the chains of the clip the kernel passes of a descale generation start
\* from: the source luma, with or without the field transform
SourceLumaChains == {clipy.hist, FieldBasedApply(clipy, field_based).hist}

\* C8: in every step that generates descale: with an ignore mask set, exactly
\* two kernel descale passes, first height-only on the source luma with the
\* ignore mask at source resolution while mode is "h", then width-only on the
\* result of the first with the ignore mask point-resized to that result's
\* height while mode is "w", and mode is "hw" afterwards; with no ignore mask,
\* one pass given both dimensions, and mode is not changed.
C8_TwoPassDescale ==
    [][genCount'["descale"] # genCount["descale"] =>
          LET d == cache'["descale"]
              ps == Passes(d)
          IN IF Truthy(_ignore_mask)
             THEN /\ Len(ps) = 2
                  /\ ps[1].width = <<>> /\ ps[1].height = <<DstH>>
                  /\ ps[1].kwargs.mode = "h"
                  /\ ps[1].ignore_mask = _ignore_mask
                  /\ _ignore_mask.w = clipy.w /\ _ignore_mask.h = clipy.h
                  /\ ps[2].width = <<DstW>> /\ ps[2].height = <<>>
                  /\ ps[2].kwargs.mode = "w"
                  /\ ps[2].ignore_mask = PointScale(_ignore_mask, DstH)
                  /\ \E i \in 1 .. Len(d.hist) - 1 :
                        /\ SubSeq(d.hist, 1, i - 1) \in SourceLumaChains
                        /\ d.hist[i] = ps[1]
                        /\ d.hist[i + 1] = ps[2]
                  /\ mode' = "hw"
             ELSE /\ Len(ps) = 1
                  /\ ps[1].width = <<DstW>> /\ ps[1].height = <<DstH>>
                  /\ ps[1].kwargs.mode = mode
                  /\ ps[1].kwargs.axes = Axes(mode)
                  /\ ps[1].ignore_mask = None
                  /\ mode' = mode]_vars

\* C8 witness: descale was generated by the two-pass path and mode is back to
\* "hw".
C8_Witness ==
    /\ Cached("descale")
    /\ Truthy(_ignore_mask)
    /\ Len(Passes(cache["descale"])) = 2
    /\ Passes(cache["descale"])[1].ignore_mask = _ignore_mask
    /\ mode = "hw"

\* how often FieldBased.apply occurs in the filter graph of a chain
RECURSIVE FieldApplies(_)
FieldApplies(hist) ==
    IF hist = <<>> THEN 0
    ELSE LET e == hist[Len(hist)]
         IN FieldApplies(SubSeq(hist, 1, Len(hist) - 1))
            + (IF e.op = "FieldBased.apply" THEN 1
               ELSE IF e.op = "MaskedMerge"
                    THEN FieldApplies(e.clipa) + FieldApplies(e.clipb)
               ELSE 0)

\* what a generation appended to the chain of its input
Appended(v, input) == SubSeq(v.hist, Len(input.hist) + 1, Len(v.hist))

\* the generation of v from input was wrapped: the policy's field transform,
\* then the resample passes, then the progressive mark, then the tag
Wrapped(v, input) ==
    LET ops == Appended(v, input)
        n == Len(ops)
    IN /\ SubSeq(v.hist, 1, Len(input.hist)) = input.hist
       /\ n >= 4
       /\ ops[1] = [op |-> "FieldBased.apply", value |-> field_based]
       /\ \A i \in 2 .. n - 2 : ops[i].op \in {"kernel.descale", "kernel.scale"}
       /\ ops[n - 1] = [op |-> "FieldBased.apply", value |-> "PROGRESSIVE"]
       /\ ops[n].op = "SetFrameProp"
       /\ v.fb = "PROGRESSIVE"

\* the generation of v from input applied no field step
Unwrapped(v, input) ==
    /\ FieldApplies(v.hist) = FieldApplies(input.hist)
    /\ v.fb = input.fb

\* every generation of this step is wrapped exactly when `policy` holds, and
\* doubled and upscale generations never are
FieldWrapping(policy) ==
    /\ genCount'["descale"] # genCount["descale"]
          => IF policy THEN Wrapped(cache'["descale"], clipy)
             ELSE Unwrapped(cache'["descale"], clipy)
    /\ genCount'["rescale"] # genCount["rescale"]
          => IF policy THEN Wrapped(cache'["rescale"], cache'["descale"])
             ELSE Unwrapped(cache'["rescale"], cache'["descale"])
    /\ genCount'["doubled"] # genCount["doubled"]
          => Unwrapped(cache'["doubled"], cache'["descale"])
    /\ genCount'["upscale"] # genCount["upscale"]
          => Unwrapped(cache'["upscale"], cache'["doubled"])

\* C9 as claimed: whenever a field-based policy is configured (field_based is
\* not None), every descale and rescale generation applies the field
\* transform, then the resample, then the progressive mark, once; with no
\* policy neither step occurs; doubled and upscale never apply either.
C9_FieldBasedWrapping_Claimed == [][FieldWrapping(field_based # "None")]_vars

\* C9 amended: the wrapping is applied exactly when the configured policy is
\* truthy, that is an interlaced one (BFF, TFF); with no policy or with
\* FieldBased.PROGRESSIVE neither step occurs; doubled and upscale never
\* apply either.
C9_FieldBasedWrapping == [][FieldWrapping(field_based \in {"BFF", "TFF"})]_vars

\* C9 witness: under an interlaced policy, descale was generated by the
\* two-pass path inside one wrapping, and rescale was generated from it.
C9_Witness ==
    /\ field_based = "TFF"
    /\ Cached("descale") /\ Cached("rescale")
    /\ Len(Passes(cache["descale"])) = 2
    /\ FieldApplies(cache["descale"].hist) = 2
    /\ FieldApplies(cache["rescale"].hist) = 4
    /\ cache["rescale"].fb = "PROGRESSIVE"

\* The first merge of the composition, as the next generation of upscale from
\* the cached doubled would run it: base is the tagged downscale of doubled,
\* merged what line_merge makes of it, lm the line mask it used.
\* keepAtPeak / keepAtZero: which of "base" and "luma" the claim expects at
\* the pixels where the line mask is opaque / transparent.
LineMergeKeeps(keepAtPeak, keepAtZero) ==
    Cached("doubled") =>
        LET r0 == Base_generate_upscale(Me, cache["doubled"])
            r1 == line_merge(r0)
            base == r0.ret
            merged == r1.ret
            lm == r1.s._line_mask
            applied == merged # base
            Expected(which, p) == IF which = "base" THEN base.px[p] ELSE clipy.px[p]
        IN /\ r1.exc = "none"
           /\ applied <=> (Truthy(_line_mask) \/ border_handling # 0)
           /\ applied =>
                \A p \in Grid(clipy.w, clipy.h) :
                   /\ lm.px[p] = Peak(clipy.bits) => merged.px[p] = Expected(keepAtPeak, p)
                   /\ lm.px[p] = 0 => merged.px[p] = Expected(keepAtZero, p)
           \* with no credit mask and no crop the first merge is all of the
           \* composition: it is the luma the property read returns
           /\ (~Cached("upscale") /\ ~Truthy(_credit_mask) /\ ~Cropped)
                => upscale(Me).ret.px = merged.px

\* C10 as claimed: the first merge is applied iff a line mask is set or border
\* handling is not mirror, and then keeps the original luma where the line
\* mask is opaque and the upscaled result where it is transparent.
C10_LineMaskMerge_Claimed == LineMergeKeeps("luma", "base")

\* C10 amended: the first merge is applied iff a line mask is set or border
\* handling is not mirror, and then keeps the upscaled result where the line
\* mask is opaque (peak) and the original luma where it is transparent (zero).
C10_LineMaskMerge == LineMergeKeeps("base", "luma")

\* C10 witness: upscale was composed under a line mask that is still set and
\* has an opaque and a transparent pixel: the cached luma holds the upscaled
\* result at the one and the original luma at the other.
C10_Witness ==
    /\ Cached("upscale")
    /\ Truthy(_line_mask)
    /\ ~Truthy(_credit_mask)
    /\ ~Cropped
    /\ \E p, q \in Grid(clipy.w, clipy.h) :
          /\ _line_mask.px[p] = Peak(clipy.bits)
          /\ cache["upscale"].px[p] = [k |-> "up", x |-> p[1], y |-> p[2]]
          /\ _line_mask.px[q] = 0
          /\ cache["upscale"].px[q] = clipy.px[q]

\* ------------------------------------------------------------- C11
\* The second merge of the composition, as the next generation of upscale
\* from the cached doubled would run it: before is the result of the first
\* merge, merged what credit_merge makes of it, cm the credit mask it used.
\* keepAtPeak / keepAtZero: which of "upscaled" and "luma" the claim expects
\* at the pixels where the credit mask is opaque / transparent.
CreditMergeKeeps(keepAtPeak, keepAtZero) ==
    Cached("doubled") =>
        LET r1 == line_merge(Base_generate_upscale(Me, cache["doubled"]))
            r2 == credit_merge(r1)
            before == r1.ret
            merged == r2.ret
            cm == r2.s._credit_mask
            applied == merged # before
            Expected(which, p) == IF which = "upscaled" THEN before.px[p] ELSE clipy.px[p]
        IN /\ r2.exc = "none"
           /\ applied <=> Truthy(_credit_mask)
           /\ applied =>
                \A p \in Grid(clipy.w, clipy.h) :
                   /\ cm.px[p] = Peak(clipy.bits) => merged.px[p] = Expected(keepAtPeak, p)
                   /\ cm.px[p] = 0 => merged.px[p] = Expected(keepAtZero, p)
           \* with no crop the second merge ends the composition: it is the
           \* luma the property read returns
           /\ (~Cached("upscale") /\ ~Cropped) => upscale(Me).ret.px = merged.px

\* C11 as claimed: when a credit mask is set the second merge keeps the
\* upscaled result where the credit mask is opaque and the original luma
\* where it is transparent; with no credit mask the merge is skipped.
C11_CreditMaskMerge_Claimed == CreditMergeKeeps("upscaled", "luma")

\* C11 amended: when a credit mask is set the second merge keeps the original
\* luma where the credit mask is opaque (peak) and the upscaled result where
\* it is transparent (zero); with no credit mask the merge is skipped.
C11_CreditMaskMerge == CreditMergeKeeps("luma", "upscaled")

\* C11 witness: upscale was composed under a credit mask that is still set
\* and has an opaque and a transparent pixel: the cached luma holds the
\* original luma at the one and the upscaled result at the other.
C11_Witness ==
    /\ Cached("upscale")
    /\ Truthy(_credit_mask)
    /\ ~Truthy(_line_mask)
    /\ border_handling = 0
    /\ ~Cropped
    /\ \E p, q \in Grid(clipy.w, clipy.h) :
          /\ _credit_mask.px[p] = Peak(clipy.bits)
          /\ cache["upscale"].px[p] = clipy.px[p]
          /\ _credit_mask.px[q] = 0
          /\ cache["upscale"].px[q] = [k |-> "up", x |-> q[1], y |-> q[2]]

\* ------------------------------------------------------------- C12
AllPositive(c) == \A i \in 1 .. 4 : c[i] > 0

\* the pixels of the left / right columns and top / bottom rows of the crop
Border(p) ==
    \/ p[1] < _crop[1]
    \/ p[1] >= SrcW - _crop[2]
    \/ p[2] < _crop[3]
    \/ p[2] >= SrcH - _crop[4]

\* luma restores the borders around composed: the pre-crop luma on the
\* border, composed shifted by (L, T) inside
Restores(luma, composed) ==
    /\ luma.w = SrcW /\ luma.h = SrcH
    /\ \A p \in Grid(SrcW, SrcH) :
          IF Border(p) THEN luma.px[p] = pre_y.px[p]
          ELSE luma.px[p] = composed.px[<<p[1] - _crop[1], p[2] - _crop[3]>>]

\* C12: with a crop (L, R, T, B) all positive, the luma of upscale equals the
\* pre-crop original luma on the left L / right R columns and top T / bottom
\* B rows, and equals the composed upscale of the cropped luma shifted by
\* (L, T) inside, whatever line mask and credit mask are set.
C12_CropBorderRestoration ==
    AllPositive(_crop) =>
        /\ Cached("upscale") =>
              /\ cache["upscale"].w = SrcW /\ cache["upscale"].h = SrcH
              /\ \A p \in Grid(SrcW, SrcH) :
                    IF Border(p) THEN cache["upscale"].px[p] = pre_y.px[p]
                    ELSE cache["upscale"].px[p].k \in {"up", "src", "mix"}
        /\ Cached("doubled") =>
              LET r2 == credit_merge(line_merge(Base_generate_upscale(Me, cache["doubled"])))
                  r3 == crop_restore(r2)
              IN /\ r3.exc = "none"
                 /\ Restores(r3.ret, r2.ret)
                 /\ ~Cached("upscale") => Restores(upscale(Me).ret, r2.ret)

\* C12 witness: upscale was composed with a crop and under a line mask and a
\* credit mask: a border pixel of the cached luma is the pre-crop luma there,
\* an interior pixel the upscaled result of the cropped luma, shifted.
C12_Witness ==
    /\ Cached("upscale")
    /\ AllPositive(_crop)
    /\ Truthy(_line_mask) /\ Truthy(_credit_mask)
    /\ cache["upscale"].px[<<0, 0>>] = [k |-> "src", x |-> 0, y |-> 0]
    /\ \E p \in Grid(SrcW, SrcH) :
          /\ ~Border(p)
          /\ cache["upscale"].px[p] =
                [k |-> "up", x |-> p[1] - _crop[1], y |-> p[2] - _crop[3]]

\* ------------------------------------------------------------- C13
\* the frame property that names the operation of node n
TagOf(n) ==
    CASE n = "descale" -> "RescaleDescaleFrom"
      [] n = "rescale" -> "RescaleRescaleFrom"
      [] n = "doubled" -> "RescaleDoubledFrom"
      [] n = "upscale" -> "RescaleUpscaleFrom"

\* C13: each generated descale, rescale, doubled and upscale clip carries the
\* frame property named after the operation that produced it, holding the
\* kernel class name and the effective source width and height, in every
\* configuration and after the merges, border restoration and chroma join.
C13_OperationTag ==
    \A n \in Nodes :
        Cached(n) =>
            /\ TagOf(n) \in DOMAIN cache[n].tags
            /\ cache[n].tags[TagOf(n)] =
                  [kernel |-> "Kernel", w |-> FormatDim(src_width), h |-> FormatDim(src_height)]

\* ------------------------------------------------------------- C14
\* no line mask, credit mask or ignore mask is set
NoMaskSet == \A i \in 1 .. 3 : ~Truthy(Masks[i])

\* the clip has that width and height
HasSize(clip, w, h) == clip.w = w /\ clip.h = h

\* C14: with no crop, rescale and upscale have the width and height of the
\* original clip (descale has the target size and doubled twice that), for the
\* cached nodes and for the reads of an instance on which no mask is set.
C14_RoundTripDimensions ==
    ~Cropped =>
        /\ Cached("descale") => HasSize(cache["descale"], DstW, DstH)
        /\ Cached("rescale") => HasSize(cache["rescale"], pre_y.w, pre_y.h)
        /\ Cached("doubled") => HasSize(cache["doubled"], Factor * DstW, Factor * DstH)
        /\ Cached("upscale") => HasSize(cache["upscale"], pre_y.w, pre_y.h)
        /\ NoMaskSet =>
              /\ HasSize(rescale(Me).ret, pre_y.w, pre_y.h)
              /\ HasSize(upscale(Me).ret, pre_y.w, pre_y.h)

\* C14 witness: an instance with no crop on which no mask was ever set has
\* read all four nodes; the upscale luma is the downscaled doubled clip.
C14_Witness ==
    /\ ~Cropped
    /\ AllCached
    /\ NoMaskSet
    /\ Len(Passes(cache["descale"])) = 1
    /\ HasSize(cache["rescale"], SrcW, SrcH)
    /\ HasSize(cache["upscale"], SrcW, SrcH)
    /\ \A p \in Grid(SrcW, SrcH) : cache["upscale"].px[p].k = "up"

\* ------------------------------------------------------------- C15
\* str renders d (in thousandths): an integral d as its integer with no
\* decimals, another d with exactly two decimals, to the nearest hundredth
Renders(str, d) ==
    IF d % 1000 = 0 THEN str = [int |-> d \div 1000, dec |-> <<>>]
    ELSE /\ Len(str.dec) = 2
         /\ \A i \in 1 .. 2 : str.dec[i] \in 0 .. 9
         /\ (str.int * 100 + str.dec[1] * 10 + str.dec[2]) * 10 - d \in -5 .. 5

\* C15: in every tag of every generated clip an integral source width or
\* height is rendered as an integer without decimals and a non-integral one
\* with exactly two decimals: 715.5 as "715.50", 720 as "720".
C15_TagNumberFormat ==
    \A n \in Nodes :
        Cached(n) =>
            /\ DOMAIN cache[n].tags # {}
            /\ \A k \in DOMAIN cache[n].tags :
                  /\ Renders(cache[n].tags[k].w, src_width)
                  /\ Renders(cache[n].tags[k].h, src_height)
                  /\ src_height = 715500 =>
                        cache[n].tags[k].h = [int |-> 715, dec |-> <<5, 0>>]
                  /\ src_height = 720000 =>
                        cache[n].tags[k].h = [int |-> 720, dec |-> <<>>]

\* C15 witness: a descale to height 715.5 and width 1280 was generated: its
\* tag holds "715.50" and "1280".
C15_Witness ==
    /\ Cached("descale")
    /\ src_height = 715500 /\ src_width = 1280000
    /\ cache["descale"].tags["RescaleDescaleFrom"].h = [int |-> 715, dec |-> <<5, 0>>]
    /\ cache["descale"].tags["RescaleDescaleFrom"].w = [int |-> 1280, dec |-> <<>>]

\* ------------------------------------------------------------- C16
\* C16: every delete of an attribute of the instance, whatever its name and
\* whether or not it is cached, terminates: __delattr__ returns or raises
\* before its re-entry reaches the recursion limit.
C16_DeleteTerminates ==
    [][\A name \in DelNames : DelAttr(name) => exc' # "RecursionError"]_vars

\* ------------------------------------------------------------- C17
\* the kwargs of the kernel.scale / downscaler.scale invocation that made clip
ScaleKwargs(clip) ==
    SelectSeq(clip.hist, LAMBDA e : e.op \in {"kernel.scale", "downscaler.scale"})

\* C17: between calls descale_args.mode is both ('hw'), also after the first
\* or the second pass of the two-pass descale has failed, and no rescale or
\* upscale was generated with kwargs built under a single-axis mode.
C17_NoLeakedMode ==
    /\ mode = "hw"
    /\ \A n \in {"rescale", "upscale"} :
          Cached(n) =>
              \A i \in 1 .. Len(ScaleKwargs(cache[n])) :
                  ScaleKwargs(cache[n])[i].kwargs.mode = "hw"

\* ------------------------------------------------------------- C18
\* the nodes generated from n, directly or not
Descendants(n) ==
    CASE n = "descale" -> {"rescale", "doubled", "upscale"}
      [] n = "doubled" -> {"upscale"}
      [] OTHER -> {}

\* the read r.<n> of a derived property, as a step
ReadStep(n) ==
    CASE n = "descale" -> GetDescale
      [] n = "rescale" -> GetRescale
      [] n = "doubled" -> GetDoubled
      [] n = "upscale" -> GetUpscale

\* a step in which a collaborator operation failed: what it leaves cached
FailedStepCache ==
    \* nodes cached before keep their values
    /\ \A m \in Nodes : Cached(m) => cache'[m] = cache[m]
    \* a node cached by the step was generated in it, from cached ancestors
    /\ \A m \in Nodes :
          (~Cached(m) /\ cache'[m] # None) =>
              /\ genCount'[m] = genCount[m] + 1
              /\ \A a \in Ancestors(m) : cache'[a] # None
    \* a node left uncached completed no generation, and nothing downstream
    \* of it is cached
    /\ \A m \in Nodes :
          cache'[m] = None =>
              /\ genCount'[m] = genCount[m]
              /\ \A d \in Descendants(m) : cache'[d] = None
    \* the read that failed left its own node uncached
    /\ \A n \in Nodes : ReadStep(n) => cache'[n] = None

\* the collaborator operations a read of n runs when none fails
Operations(n) == MaxFuel - Read(n, Self(MaxFuel)).s.fuel

\* a read of n in which the first or the last of these operations fails
\* raises the failure to the caller and returns nothing
Propagates(n) ==
    \A f \in {0, Operations(n) - 1} \cap (0 .. Operations(n) - 1) :
        /\ Read(n, Self(f)).exc = "Failure"
        /\ Read(n, Self(f)).ret = None

\* a read of the uncached node n in which nothing fails runs its generation
Regenerates(n) ==
    LET r == Read(n, Me)
    IN /\ r.exc = "none"
       /\ r.s.genCount[n] = genCount[n] + 1
       /\ r.s.cache[n] = r.ret

\* C18: when a read of a derived property fails inside a collaborator
\* operation the failure reaches the caller, the node whose generation failed
\* and the nodes downstream of it stay uncached, the nodes cached before keep
\* their values, the ancestors generated during the read stay cached, and a
\* later read of the failed node runs its generation again.
C18_FailedGenerationCachesNothing ==
    /\ [](/\ \A n \in Nodes : Propagates(n)
          /\ exc = "Failure" => \A n \in Nodes : ~Cached(n) => Regenerates(n))
    /\ [][exc' = "Failure" => FailedStepCache]_vars

\* C18 witness: a read of upscale failed after descale and doubled were
\* generated: they are cached, upscale and rescale are not.
C18_Witness ==
    /\ exc = "Failure"
    /\ Cached("descale") /\ Cached("doubled")
    /\ ~Cached("upscale") /\ ~Cached("rescale")
    /\ genCount = [n \in Nodes |-> IF n \in {"descale", "doubled"} THEN 1 ELSE 0]

\* ------------------------------------------------------------- C19
\* a step that is a setter or a deleter of a mask, a read of a mask property
\* or a call of default_line_mask / default_credit_mask
MaskStep ==
    \/ SetLineMask \/ SetCreditMask \/ SetIgnoreMask
    \/ \E m \in MaskNames : DelAttr(m)
    \/ GetLineMask \/ GetCreditMask \/ GetIgnoreMask
    \/ DefaultLineMask \/ DefaultCreditMask

\* C19: with mirror border handling a read of descale, rescale, doubled or
\* upscale leaves line_mask, credit_mask and ignore_mask as they were, set or
\* unset and the same masks; the masks change only in a setter, a deleter, a
\* read of a mask property or default_line_mask / default_credit_mask.
\* (A step that changes a mask is one of the latter and is no read of a node.)
C19_ReadsKeepMasks ==
    [][(border_handling = 0 /\ Masks' # Masks) =>
          /\ MaskStep
          /\ \A n \in Nodes : ~ReadStep(n)]_vars

\* C19 witness: with mirror border handling all four nodes were generated
\* under a line mask, a credit mask and an ignore mask, and the three masks
\* are still the ones the setters stored.
C19_Witness ==
    /\ border_handling = 0
    /\ AllCached
    /\ _line_mask = depth(StripeMask(LumaBits), clipy.bits)
    /\ _credit_mask = depth(StripeMask(LumaBits), clipy.bits)
    /\ _ignore_mask = depth(StripeMask(LumaBits), GRAY8Bits)
    /\ Len(Passes(cache["descale"])) = 2
    /\ \E p \in Grid(clipy.w, clipy.h) : cache["upscale"].px[p].k = "mix"

\* ------------------------------------------------------------- C20
\* the instance after r.line_mask and / or r.credit_mask were read
AfterMaskReads(readLine, readCredit) ==
    LET a == IF readLine THEN line_mask(Me).s ELSE Me
    IN IF readCredit THEN credit_mask(a).s ELSE a

\* C20: on an instance with mirror border handling and no crop whose line
\* mask and credit mask were never assigned, the defaults a read of the mask
\* properties creates (an opaque line mask, a blank credit mask) are neutral:
\* the composed upscale luma is the base upscale at every pixel, as it is
\* with no mask set.
C20_DefaultMasksNeutral ==
    (/\ border_handling = 0 /\ ~Cropped
     /\ _line_mask = None /\ _credit_mask = None
     /\ Cached("doubled")) =>
        LET base == Base_generate_upscale(Me, cache["doubled"]).ret
        IN /\ \A p \in Grid(clipy.w, clipy.h) :
                 /\ line_mask(Me).ret.px[p] = Peak(clipy.bits)
                 /\ credit_mask(Me).ret.px[p] = 0
           /\ \A readLine, readCredit \in BOOLEAN :
                 LET r == _generate_upscale(AfterMaskReads(readLine, readCredit),
                                            cache["doubled"])
                 IN /\ r.exc = "none"
                    /\ r.ret.px = base.px
                    /\ (readLine \/ readCredit) =>
                          r.ret.hist[1].op = "MaskedMerge"

\* C20 witness: with mirror border handling and no crop, upscale was composed
\* through both merges under the default masks that reads of r.line_mask and
\* r.credit_mask had created, and its luma is the base upscale everywhere.
C20_Witness ==
    /\ border_handling = 0 /\ ~Cropped
    /\ Cached("upscale")
    /\ Truthy(_line_mask) /\ Truthy(_credit_mask)
    /\ \A p \in Grid(clipy.w, clipy.h) :
          /\ _line_mask.px[p] = Peak(clipy.bits)
          /\ _credit_mask.px[p] = 0
          /\ cache["upscale"].px[p] = [k |-> "up", x |-> p[1], y |-> p[2]]
    /\ cache["upscale"].hist[1].op = "MaskedMerge"
    /\ cache["upscale"].hist[1].mask = "credit_mask"
    /\ cache["upscale"].hist[1].clipa[1].mask = "line_mask"

====
